---- MODULE Spec2Model ----
(***************************************************************************)
(* Device-tree overlay management of torizoncore-builder                   *)
(* (tcbuilder/cli/dto.py): dto_apply, dto_remove_single, dto_remove_all    *)
(* acting on the files of one storage directory.                           *)
(*                                                                         *)
(* A file name is a record [stem, ext]: stem is the sequence of            *)
(* space-separated words of the name, ext its extension.  "my a.dtbo" is   *)
(* [stem |-> <<"my", "a">>, ext |-> ".dtbo"].                              *)
(***************************************************************************)
EXTENDS Integers, Sequences, FiniteSets, TLC

VARIABLES fs, run, last, dep, host, ost

vars == <<fs, run, last, dep, host, ost>>

\* ------------------------------------------------------------------ bounds

\* Words the text of overlays.txt holds at most.
MaxWords == 3

\* Overlay sources one dto deploy command names at most.
MaxPaths == 2

\* Refs a repository lists at most.
MaxRefs == 3

\* Changes directories one union merges at most.
MaxDirs == 2

\* Entries /usr/lib/modules of a commit holds at most.
MaxModules == 3

\* Refs one pull_local_refs call is given at most.
MaxPulls == 3

\* Requests the HTTP server is sent at most while it serves.
MaxRequests == 3

\* ------------------------------------------------------------ file names

Name(stem, ext) == [stem |-> stem, ext |-> ext]

NoName == Name(<<>>, "")

\* os.path.splitext(os.path.basename(dtos_path))[0] + ".dtbo"
TargetBasename(dtos) == Name(dtos.stem, ".dtbo")

\* The space-separated words of one file name, each a file name itself.
WordsOf(n) ==
    [i \in 1..Len(n.stem) |->
        Name(<<n.stem[i]>>, IF i = Len(n.stem) THEN n.ext ELSE "")]

RECURSIVE JoinNames(_)
\* " ".join(basenames), as the sequence of words of the resulting text.
JoinNames(names) ==
    IF names = <<>> THEN <<>>
    ELSE WordsOf(Head(names)) \o JoinNames(Tail(names))

RECURSIVE RemoveFirst(_, _)
\* list.remove(x): removes the first occurrence only.
RemoveFirst(s, x) ==
    IF s = <<>> THEN <<>>
    ELSE IF Head(s) = x THEN Tail(s)
    ELSE <<Head(s)>> \o RemoveFirst(Tail(s), x)

Range(s) == {s[i] : i \in 1..Len(s)}

\* ------------------------------------------------------------- files

\* overlays.txt: absent, empty (opened for writing, nothing written yet),
\* or holding the directive "fdt_overlays=<words>\n".
NoFile == [exists |-> FALSE, directive |-> FALSE, words |-> <<>>]

EmptyFile == [exists |-> TRUE, directive |-> FALSE, words |-> <<>>]

Directive(names) ==
    [exists |-> TRUE, directive |-> TRUE, words |-> JoinNames(names)]

\* A compiled overlay: the labels it refers to and the labels it defines.
Blob(needs, gives) == [valid |-> TRUE, needs |-> needs, gives |-> gives]

\* The content of a temporary file nothing was written to.
EmptyBlob == [valid |-> FALSE, needs |-> {}, gives |-> {}]

\* Directory f without the file k.
Without(f, k) == [x \in (DOMAIN f) \ {k} |-> f[x]]

\* Directory f with file k holding v (an existing k is replaced).
With(f, k, v) == (k :> v) @@ f

EmptyDir == <<>>

\* ------------------------------------------------- the storage directory

\* The overlay source files the user can name on the command line: the
\* directory and name of each, whether it compiles, and what it compiles to.
Dtos(dir, stem, ok, needs, gives) ==
    [dir |-> dir, stem |-> stem, ext |-> ".dts", ok |-> ok,
     blob |-> Blob(needs, gives)]

Sources ==
    { Dtos("overlays", <<"a">>, TRUE, {}, {"la"}),
      Dtos("other", <<"a">>, FALSE, {}, {}),
      Dtos("overlays", <<"b">>, TRUE, {"lk"}, {}),
      Dtos("overlays", <<"my", "a">>, TRUE, {}, {}) }

\* The overlay shipped by the base image.
BaseOverlay == Name(<<"k">>, ".dtbo")

\* The device trees of the base image.
CurrentDtb == Name(<<"cur">>, ".dtb")

OtherDtb == Name(<<"alt">>, ".dtb")

\* The base image of an unpacked Easy Installer image: its overlays.txt,
\* its overlay blobs, its device trees (each with the labels it defines) and
\* whether the device tree in use is determined exactly.
BaseImage(manifest, exact) ==
    [manifest |-> manifest,
     overlays |-> With(EmptyDir, BaseOverlay, Blob({}, {"lk"})),
     dtbs |-> With(With(EmptyDir, CurrentDtb, {"l0"}), OtherDtb, {"l0"}),
     exact |-> exact]

NoImage ==
    [manifest |-> NoFile, overlays |-> EmptyDir, dtbs |-> EmptyDir,
     exact |-> FALSE]

\* A storage directory right after "images unpack" (or without it): nothing
\* staged in the changes directory, no temporary file.
Storage(unpacked, type, base) ==
    [unpacked |-> unpacked, type |-> type, base |-> base,
     manifest |-> NoFile, staged |-> EmptyDir, tmp |-> EmptyDir]

FreshStorages ==
    { Storage(TRUE, "tezi", BaseImage(m, e)) :
        m \in {NoFile, Directive(<<BaseOverlay>>)},
        e \in BOOLEAN }
    \cup { Storage(TRUE, "wic", NoImage), Storage(FALSE, "none", NoImage) }

\* ----------------------------------------------- backend helpers (dto, dt)

\* dto.get_applied_overlays_base_names: the words of the directive of the
\* overlays.txt of the changes directory, else of the base image's, else none.
GetAppliedOverlaysBaseNames(f) ==
    LET file == IF f.manifest.exists THEN f.manifest ELSE f.base.manifest
    IN  IF file.exists /\ file.directive THEN file.words ELSE <<>>

NoPath == [dir |-> "none", name |-> NoName]

\* dto.find_path_to_overlay: the staged blob first, else the base image's.
FindPathToOverlay(f, n) ==
    IF n \in DOMAIN f.staged THEN [dir |-> "changes", name |-> n]
    ELSE IF n \in DOMAIN f.base.overlays THEN [dir |-> "base", name |-> n]
    ELSE NoPath

\* dto.get_applied_overlay_paths
GetAppliedOverlayPaths(f, names) ==
    [i \in 1..Len(names) |-> FindPathToOverlay(f, names[i])]

ReadBlob(f, path) ==
    IF path.dir = "changes" THEN f.staged[path.name]
    ELSE f.base.overlays[path.name]

RECURSIVE ChainOk(_, _)
\* Each overlay in turn finds the labels it refers to in the device tree as
\* modified so far, and adds its own.
ChainOk(labels, blobs) ==
    IF blobs = <<>> THEN TRUE
    ELSE /\ Head(blobs).valid
         /\ Head(blobs).needs \subseteq labels
         /\ ChainOk(labels \cup Head(blobs).gives, Tail(blobs))

\* dto.modify_dtb_by_overlays(dtb_path, overlay paths, output path)
ModifyDtbByOverlays(f, dtb, blobs) ==
    /\ dtb \in DOMAIN f.base.dtbs
    /\ ChainOk(f.base.dtbs[dtb], blobs)

\* tempfile.NamedTemporaryFile: a name no temporary file has.
FreshTmp(f) ==
    CHOOSE i \in 1..(Cardinality(DOMAIN f.tmp) + 1) :
        /\ i \notin DOMAIN f.tmp
        /\ \A j \in 1..(i - 1) : j \in DOMAIN f.tmp

\* ------------------------------------------------------ one operation

\* The arguments of the three operations, in one record.
ApplyArgs(dtos, dtb, allow_reapply, test_apply) ==
    [dtos |-> dtos, dtb |-> dtb, allow_reapply |-> allow_reapply,
     test_apply |-> test_apply, dtob_basename |-> NoName,
     presence_required |-> FALSE, overlays_isdir |-> TRUE]

RemoveArgs(dtob_basename, presence_required) ==
    [dtos |-> Dtos("", <<>>, FALSE, {}, {}), dtb |-> NoName,
     allow_reapply |-> FALSE, test_apply |-> FALSE,
     dtob_basename |-> dtob_basename, presence_required |-> presence_required,
     overlays_isdir |-> TRUE]

NoArgs == RemoveArgs(NoName, FALSE)

\* dto list: --device-tree, and whether the working directory has the
\* directory device-trees/overlays.
ListArgs(device_tree, overlays_isdir) ==
    [NoArgs EXCEPT !.dtb = device_tree, !.overlays_isdir = overlays_isdir]

\* The local variables of a call: where it stands (pc), the applied list it
\* read, the names of its temporary files (0: none), and how it ended:
\* outcome, and status "ok" (returned), "exit1" (sys.exit(1)) or "raised"
\* (an exception left the function).  overlap records whether another call
\* was in progress at some time between the start and the end of this one.
Call(op, args, f) ==
    [op |-> op, pc |-> op, args |-> args, pre |-> f,
     applied |-> <<>>, target |-> NoName, dtob_tmp |-> 0, dtb_tmp |-> 0,
     dtb |-> NoName, paths |-> <<>>, dtob_path |-> NoPath,
     outcome |-> "running", status |-> "running", ret |-> FALSE,
     overlap |-> FALSE]

Idle == Call("none", NoArgs, <<>>)

Res(f, l) == [fs |-> f, loc |-> l]

Goto(l, pc) == [l EXCEPT !.pc = pc]

End(l, outcome, status) ==
    [l EXCEPT !.pc = "done", !.outcome = outcome, !.status = status]

\* CheckImage letting every storage directory pass.
CheckImageSkipped(f, l, next) ==
    Res(f, Goto(l, next))

\* images_unpack_executed(storage_dir); unpacked_image_type(storage_dir)
CheckImage(f, l, next) ==
    IF ~f.unpacked THEN Res(f, End(l, "InvalidOperation", "exit1"))
    ELSE IF f.type = "wic" THEN Res(f, End(l, "InvalidOperation", "raised"))
    ELSE Res(f, Goto(l, next))

\* ---------------------------------------------------------- dto_apply

ApplyRead(f, l) ==
    Res(f, [l EXCEPT !.pc = "apply_dup",
                     !.applied = GetAppliedOverlaysBaseNames(f),
                     !.target = TargetBasename(l.args.dtos)])

\* ApplyDup without the test for a redundant application.
ApplyDupUnchecked(f, l) ==
    Res(f, [l EXCEPT !.pc = "apply_compile",
                     !.applied = IF l.target \in Range(l.applied)
                                 THEN RemoveFirst(l.applied, l.target)
                                 ELSE l.applied])

ApplyDup(f, l) ==
    IF ~l.args.allow_reapply /\ l.target \in Range(l.applied)
    THEN Res(f, End(l, "Conflict", "exit1"))
    ELSE Res(f, [l EXCEPT !.pc = "apply_compile",
                          !.applied = IF l.target \in Range(l.applied)
                                      THEN RemoveFirst(l.applied, l.target)
                                      ELSE l.applied])

\* ApplyCompile with the compiler writing straight to the target directory.
ApplyCompileInPlace(f, l) ==
    LET t == FreshTmp(f)
        made == [f EXCEPT !.tmp = With(f.tmp, t, EmptyBlob)]
        l1 == [l EXCEPT !.dtob_tmp = t]
    IN  IF ~l.args.dtos.ok
        THEN Res(made, End(l1, "CompileError", "exit1"))
        ELSE Res([f EXCEPT !.tmp = With(f.tmp, t, l.args.dtos.blob),
                           !.staged = With(f.staged, l.target, l.args.dtos.blob)],
                 Goto(l1, IF l.args.test_apply THEN "apply_dtb"
                          ELSE "apply_move"))

\* ApplyCompile going on to the device tree also when test_apply is false.
ApplyCompileAlwaysTested(f, l) ==
    LET t == FreshTmp(f)
        made == [f EXCEPT !.tmp = With(f.tmp, t, EmptyBlob)]
        l1 == [l EXCEPT !.dtob_tmp = t]
    IN  IF ~l.args.dtos.ok
        THEN Res(made, End(l1, "CompileError", "exit1"))
        ELSE Res([f EXCEPT !.tmp = With(f.tmp, t, l.args.dtos.blob)],
                 Goto(l1, "apply_dtb"))

ApplyCompile(f, l) ==
    LET t == FreshTmp(f)
        made == [f EXCEPT !.tmp = With(f.tmp, t, EmptyBlob)]
        l1 == [l EXCEPT !.dtob_tmp = t]
    IN  IF ~l.args.dtos.ok
        THEN Res(made, End(l1, "CompileError", "exit1"))
        ELSE Res([f EXCEPT !.tmp = With(f.tmp, t, l.args.dtos.blob)],
                 Goto(l1, IF l.args.test_apply THEN "apply_dtb"
                          ELSE "apply_move"))

\* ApplyDtb taking the device tree found for the current one, exact or not.
ApplyDtbAssumed(f, l) ==
    IF l.args.dtb # NoName
    THEN Res(f, [l EXCEPT !.pc = "apply_test", !.dtb = l.args.dtb])
    ELSE Res(f, [l EXCEPT !.pc = "apply_test", !.dtb = CurrentDtb])

ApplyDtb(f, l) ==
    IF l.args.dtb # NoName
    THEN Res(f, [l EXCEPT !.pc = "apply_test", !.dtb = l.args.dtb])
    ELSE IF ~f.base.exact
    THEN Res(f, End(l, "AmbiguousTarget", "exit1"))
    ELSE Res(f, [l EXCEPT !.pc = "apply_test", !.dtb = CurrentDtb])

ApplyTest(f, l) ==
    LET paths == GetAppliedOverlayPaths(f, l.applied)
        t == FreshTmp(f)
        made == [f EXCEPT !.tmp = With(f.tmp, t, EmptyBlob)]
        merged == [f EXCEPT !.tmp = With(f.tmp, t, Blob({}, {}))]
        l1 == [l EXCEPT !.paths = paths]
        l2 == [l1 EXCEPT !.dtb_tmp = t]
        blobs == [i \in 1..Len(paths) |-> ReadBlob(f, paths[i])]
    IN  IF NoPath \in Range(paths)
        THEN Res(f, End(l1, "NotFound", "raised"))
        ELSE IF ~ModifyDtbByOverlays(f, l.dtb, blobs \o <<f.tmp[l.dtob_tmp]>>)
        THEN Res(made, End(l2, "NotApplicable", "exit1"))
        ELSE Res(merged, Goto(l2, "apply_move"))

ApplyMove(f, l) ==
    Res([f EXCEPT !.staged = With(f.staged, l.target, f.tmp[l.dtob_tmp]),
                  !.tmp = Without(f.tmp, l.dtob_tmp)],
        Goto(l, "apply_open"))

ApplyOpen(f, l) ==
    Res([f EXCEPT !.manifest = EmptyFile], Goto(l, "apply_write"))

\* ApplyWrite writing the new basename only.
ApplyWriteTargetOnly(f, l) ==
    Res([f EXCEPT !.manifest = Directive(<<l.target>>)],
        End(l, "Applied", "ok"))

ApplyWrite(f, l) ==
    Res([f EXCEPT !.manifest = Directive(l.applied \o <<l.target>>)],
        End(l, "Applied", "ok"))

\* --------------------------------------------------- dto_remove_single

\* RemoveRead taking every absent overlay for an error.
RemoveReadStrict(f, l) ==
    LET dtob_basenames == GetAppliedOverlaysBaseNames(f)
    IN  IF l.args.dtob_basename \notin Range(dtob_basenames)
        THEN Res(f, End(l, "NotFound", "exit1"))
        ELSE Res(f, [l EXCEPT !.pc = "remove_open",
                              !.applied = RemoveFirst(dtob_basenames,
                                                      l.args.dtob_basename)])

RemoveRead(f, l) ==
    LET dtob_basenames == GetAppliedOverlaysBaseNames(f)
    IN  IF l.args.dtob_basename \notin Range(dtob_basenames)
        THEN IF l.args.presence_required
             THEN Res(f, End(l, "NotFound", "exit1"))
             ELSE Res(f, End(l, "NotApplied", "ok"))
        ELSE Res(f, [l EXCEPT !.pc = "remove_open",
                              !.applied = RemoveFirst(dtob_basenames,
                                                      l.args.dtob_basename)])

RemoveOpen(f, l) ==
    Res([f EXCEPT !.manifest = EmptyFile], Goto(l, "remove_write"))

RemoveWrite(f, l) ==
    Res([f EXCEPT !.manifest = Directive(l.applied)], Goto(l, "remove_find"))

RemoveFind(f, l) ==
    LET dtob_path == FindPathToOverlay(f, l.args.dtob_basename)
    IN  IF dtob_path = NoPath
        THEN Res(f, End(l, "NotFound", "raised"))
        ELSE Res(f, [l EXCEPT !.pc = "remove_unlink", !.dtob_path = dtob_path])

\* os.remove(path)
OsRemove(f, path) ==
    IF path.dir = "changes"
    THEN [f EXCEPT !.staged = Without(f.staged, path.name)]
    ELSE [f EXCEPT !.base.overlays = Without(f.base.overlays, path.name)]

\* RemoveUnlink deleting the blob wherever it was found.
RemoveUnlinkAnywhere(f, l) ==
    Res(OsRemove(f, l.dtob_path), [End(l, "Removed", "ok") EXCEPT !.ret = TRUE])

RemoveUnlink(f, l) ==
    Res(IF l.dtob_path.dir = "changes" THEN OsRemove(f, l.dtob_path) ELSE f,
        [End(l, "Removed", "ok") EXCEPT !.ret = TRUE])

\* ------------------------------------------------------ dto_remove_all

RemoveAllOpen(f, l) ==
    Res([f EXCEPT !.manifest = EmptyFile], Goto(l, "remove_all_write"))

RemoveAllWrite(f, l) ==
    Res([f EXCEPT !.manifest = Directive(<<>>)], Goto(l, "remove_all_rmtree"))

\* RemoveAllRmtree leaving the staged blobs in place.
RemoveAllRmtreeSkipped(f, l) ==
    Res(f, Goto(l, "remove_all_assert"))

RemoveAllRmtree(f, l) ==
    Res([f EXCEPT !.staged = EmptyDir], Goto(l, "remove_all_assert"))

RemoveAllAssert(f, l) ==
    IF GetAppliedOverlaysBaseNames(f) # <<>>
    THEN Res(f, End(l, "InvariantViolation", "raised"))
    ELSE Res(f, End(l, "Cleared", "ok"))

\* ---------------------------------------------- do_dto_list, do_dto_status

\* The sanity checks of the working directory and of --device-tree.
ListSanity(f, l) ==
    IF ~l.args.overlays_isdir
    THEN Res(f, End(l, "MissingOverlaysDir", "exit1"))
    ELSE IF l.args.dtb # NoName /\ l.args.dtb.ext \notin {".dtb", ".dts"}
    THEN Res(f, End(l, "BadDeviceTreeArgument", "exit1"))
    ELSE Res(f, Goto(l, "list_image"))

\* The device tree to check compatibility against.
ListDtb(f, l) ==
    IF l.args.dtb # NoName
    THEN Res(f, [l EXCEPT !.pc = "list_compat", !.dtb = l.args.dtb])
    ELSE IF ~f.base.exact /\ Cardinality(DOMAIN f.base.dtbs) > 1
    THEN Res(f, End(l, "AmbiguousTarget", "exit1"))
    ELSE Res(f, [l EXCEPT !.pc = "list_compat", !.dtb = CurrentDtb])

\* The compatibility labels go to a temporary file; the sources that match
\* them are shown.
ListCompat(f, l) ==
    LET t == FreshTmp(f)
        made == [f EXCEPT !.tmp = With(f.tmp, t, EmptyBlob)]
        l1 == [l EXCEPT !.dtb_tmp = t]
    IN  IF l.dtb \notin DOMAIN f.base.dtbs
        THEN Res(made, End(l1, "BadDeviceTree", "exit1"))
        ELSE Res(made, End(l1, "Listed", "ok"))

StatusShow(f, l) ==
    Res(f, [End(l, "Shown", "ok") EXCEPT
                !.dtb = CurrentDtb,
                !.applied = GetAppliedOverlaysBaseNames(f)])

\* ------------------------------------------------- running an operation

\* The next statement group of a call, by its position.
Step(f, l) ==
    CASE l.pc = "apply" -> CheckImage(f, l, "apply_read")
      [] l.pc = "apply_read" -> ApplyRead(f, l)
      [] l.pc = "apply_dup" -> ApplyDup(f, l)
      [] l.pc = "apply_compile" -> ApplyCompile(f, l)
      [] l.pc = "apply_dtb" -> ApplyDtb(f, l)
      [] l.pc = "apply_test" -> ApplyTest(f, l)
      [] l.pc = "apply_move" -> ApplyMove(f, l)
      [] l.pc = "apply_open" -> ApplyOpen(f, l)
      [] l.pc = "apply_write" -> ApplyWrite(f, l)
      [] l.pc = "remove" -> CheckImage(f, l, "remove_read")
      [] l.pc = "remove_read" -> RemoveRead(f, l)
      [] l.pc = "remove_open" -> RemoveOpen(f, l)
      [] l.pc = "remove_write" -> RemoveWrite(f, l)
      [] l.pc = "remove_find" -> RemoveFind(f, l)
      [] l.pc = "remove_unlink" -> RemoveUnlink(f, l)
      [] l.pc = "remove_all" -> CheckImage(f, l, "remove_all_open")
      [] l.pc = "remove_all_open" -> RemoveAllOpen(f, l)
      [] l.pc = "remove_all_write" -> RemoveAllWrite(f, l)
      [] l.pc = "remove_all_rmtree" -> RemoveAllRmtree(f, l)
      [] l.pc = "remove_all_assert" -> RemoveAllAssert(f, l)
      [] l.pc = "list" -> ListSanity(f, l)
      [] l.pc = "list_image" -> CheckImage(f, l, "list_dtb")
      [] l.pc = "list_dtb" -> ListDtb(f, l)
      [] l.pc = "list_compat" -> ListCompat(f, l)
      [] l.pc = "status" -> CheckImage(f, l, "status_show")
      [] l.pc = "status_show" -> StatusShow(f, l)

RECURSIVE RunCall(_, _)
\* A call run from its position to its end, nothing else running.
RunCall(f, l) ==
    IF l.pc = "done" THEN Res(f, l)
    ELSE LET r == Step(f, l) IN RunCall(r.fs, r.loc)

\* ------------------------------------------------------------ the inputs

DtbArgs == {NoName, OtherDtb}

ApplyInputs ==
    { ApplyArgs(d, t, r, TRUE) : d \in Sources, t \in DtbArgs, r \in BOOLEAN }
    \cup { ApplyArgs(d, NoName, r, FALSE) : d \in Sources, r \in BOOLEAN }

Targets == { TargetBasename(d) : d \in Sources }

RemoveNames ==
    Targets \cup {BaseOverlay} \cup UNION { Range(WordsOf(n)) : n \in Targets }

RemoveInputs ==
    { RemoveArgs(n, q) : n \in RemoveNames, q \in BOOLEAN }

ListInputs ==
    { ListArgs(t, d) : t \in DtbArgs \cup {Name(<<"cur">>, ".txt")},
                       d \in BOOLEAN }

\* overlays.txt has room for the words of the list the call would write.
CanApply(f, a) ==
    LET applied == GetAppliedOverlaysBaseNames(f)
        target == TargetBasename(a.dtos)
        kept == IF target \in Range(applied) THEN Len(applied) - 1
                ELSE Len(applied)
    IN  kept + Len(target.stem) <= MaxWords

\* The storage directory as a new call finds it.  The temporary files that
\* earlier calls left behind are dropped from the state: no call reads
\* another call's temporary files, so fs.tmp holds those of the calls in
\* progress and of the call that ended last.
Entering(f, inuse) ==
    [f EXCEPT !.tmp = [t \in (DOMAIN f.tmp) \cap inuse |-> f.tmp[t]]]

Procs == {"p1", "p2"}

\* ------------------------------------------------------------ dto deploy

\* The arguments of dto deploy: the overlay sources in command-line order,
\* --clear, --force and --device-tree.
DeployArgs(dtos_paths, clear, force, device_tree) ==
    [dtos_paths |-> dtos_paths, clear |-> clear, force |-> force,
     device_tree |-> device_tree]

\* The tree a commit holds: overlays.txt and the staged blobs.
Tree(f) == [manifest |-> f.manifest, staged |-> f.staged]

NoDevice == [ref |-> "none", tree |-> Tree(Storage(FALSE, "none", NoImage))]

\* A dto deploy run: where it stands, the sources still to apply (args.
\* dtos_paths from the position of the loop on), the steps it has made, each
\* with its result, the branches of the repository and what the device got.
NoDeploy ==
    [pc |-> "idle", args |-> DeployArgs(<<>>, FALSE, FALSE, NoName),
     todo |-> <<>>, steps |-> <<>>, branches |-> EmptyDir, device |-> NoDevice]

StepDone(step, arg, ok) == [step |-> step, arg |-> arg, ok |-> ok]

\* The step that follows the device-tree checkout, the --clear step or an
\* apply, with todo still to apply.
AfterCheckout(d, todo) ==
    IF todo = <<>> THEN "union" ELSE "apply"

\* The run d after step (with argument arg) ended: ok and going on at pc, or
\* failed, which ends the command.
Proceed(d, step, arg, ok, pc) ==
    [d EXCEPT !.steps = Append(d.steps, StepDone(step, arg, ok)),
              !.pc = IF ok THEN pc ELSE "failed"]

\* ------------------------------------------- resolve_hostname (common.py)

\* A host name is the sequence of its dot-separated labels: "dev.local" is
\* <<"dev", "local">>, "dev.local." is <<"dev", "local", "">>.  A string
\* that ipaddress.ip_address parses carries ip TRUE.
HostName(labels) == [labels |-> labels, ip |-> FALSE]

IpLiteral(labels) == [labels |-> labels, ip |-> TRUE]

NoHost == HostName(<<>>)

\* hostname.endswith(".local")
EndsWithLocal(h) ==
    Len(h.labels) >= 2 /\ h.labels[Len(h.labels)] = "local"

\* "." in hostname
HasDot(h) == Len(h.labels) >= 2

\* IsMdnsCandidate taking every name for a multicast-DNS name.
IsMdnsCandidateAny(h) == TRUE

\* The name is, or can be, a multicast-DNS name: after a failed standard
\* resolution the multicast fallback is tried for it.
IsMdnsCandidate(h) == ~(~EndsWithLocal(h) /\ HasDot(h))

\* MdnsHostname adding the suffix to every name.
MdnsHostnameSuffixed(h) == HostName(h.labels \o <<"local">>)

\* hostname, or hostname + ".local"
MdnsHostname(h) ==
    IF EndsWithLocal(h) THEN h ELSE HostName(h.labels \o <<"local">>)

\* The addresses the network answers with.
Addresses ==
    { IpLiteral(<<"10", "0", "0", "1">>), IpLiteral(<<"10", "0", "0", "2">>) }

\* What a network query ends with: the addresses of the answer (possibly
\* none), or the exception it raises.
Answer(addrs) == [kind |-> "answer", addrs |-> addrs]

Raises(exc) == [kind |-> exc, addrs |-> <<>>]

\* socket.gethostbyname: the address, or socket.gaierror.
DnsOutcomes(h) ==
    IF h.ip THEN {Answer(<<h>>)}
    ELSE { Answer(<<a>>) : a \in Addresses } \cup {Raises("gaierror")}

\* resolver.query over multicast DNS: an answer of one or two addresses, an
\* answer without addresses, dns.exception.Timeout, or another exception of
\* the resolver (NXDOMAIN, NoAnswer, NoNameservers).
MdnsOutcomes ==
    { Answer(<<a>>) : a \in Addresses }
    \cup { Answer(<<a, b>>) : a \in Addresses, b \in Addresses }
    \cup { Answer(<<>>), Raises("Timeout"), Raises("DNSException") }

Query(via, name, source) == [via |-> via, name |-> name, source |-> source]

\* How a call ended: it returned (ip_addr, used_mdns), or raised the error
\* exc whose message names the host name named (NoHost: none).
Returned(ip_addr, used_mdns) ==
    [kind |-> "returned", ip_addr |-> ip_addr, used_mdns |-> used_mdns,
     exc |-> "none", named |-> NoHost]

Raised(exc, named) ==
    [kind |-> "raised", ip_addr |-> NoHost, used_mdns |-> FALSE,
     exc |-> exc, named |-> named]

\* A call made: its arguments, the queries it sent, in order, what the
\* network did (dns, mdns) and how the call ended.
Resolved(fn, hostname, mdns_source, dns, mdns, r) ==
    [fn |-> fn, hostname |-> hostname, mdns_source |-> mdns_source,
     dns |-> dns, mdns |-> mdns, queries |-> r.queries, result |-> r.result]

NoResolve ==
    Resolved("none", NoHost, "None", Raises("none"), Raises("none"),
             [queries |-> <<>>, result |-> Raised("none", NoHost)])

\* resolve_hostname(hostname, mdns_source), standard resolution ending with
\* dns and the multicast query (if sent) with mdns.
ResolveHostname(hostname, mdns_source, dns, mdns) ==
    LET q1 == Query("dns", hostname, "None")
        mdns_hostname == MdnsHostname(hostname)
        q2 == Query("mdns", mdns_hostname, mdns_source)
    IN  IF dns.kind = "answer"
        THEN [queries |-> <<q1>>, result |-> Returned(dns.addrs[1], FALSE)]
        ELSE IF ~IsMdnsCandidate(hostname)
        THEN [queries |-> <<q1>>,
              result |-> Raised("TorizonCoreBuilderError", hostname)]
        ELSE IF mdns.kind = "answer"
        THEN IF Len(mdns.addrs) = 0
             THEN [queries |-> <<q1, q2>>,
                   result |-> Raised("TorizonCoreBuilderError", NoHost)]
             ELSE [queries |-> <<q1, q2>>,
                   result |-> Returned(mdns.addrs[1], TRUE)]
        ELSE IF mdns.kind = "Timeout"
        THEN [queries |-> <<q1, q2>>,
              result |-> Raised("TorizonCoreBuilderError", mdns_hostname)]
        ELSE [queries |-> <<q1, q2>>, result |-> Raised(mdns.kind, NoHost)]

\* resolve_remote_host(remote_host, mdns_source): ip_addr only is returned.
ResolveRemoteHost(remote_host, mdns_source, dns, mdns) ==
    IF remote_host.ip
    THEN [queries |-> <<>>, result |-> Returned(remote_host, FALSE)]
    ELSE LET r == ResolveHostname(remote_host, mdns_source, dns, mdns)
         IN  IF r.result.kind = "returned"
             THEN [r EXCEPT !.result.used_mdns = FALSE]
             ELSE r

\* ---------------------------------------- get_reference_dict (ostree.py)

\* A ref as list_refs names it: "<remote>:<path>" or "<path>", the path as
\* the sequence of its "/"-separated parts; lead says that white space
\* follows the colon.  "origin:torizon/dev" is
\* [remote |-> "origin", lead |-> FALSE, path |-> <<"torizon", "dev">>].
RefName(remote, lead, path) == [remote |-> remote, lead |-> lead, path |-> path]

OSTREE_BASE_REF == <<"base">>

\* The strings that are digits only, and those that begin with a digit.
Digits == {"0", "1"}

DigitLed == Digits \cup {"0-rc"}

\* re.match(r"ostree/[0-9]+/[0-9]+/[0-9]+", ref_name) is not None: the
\* pattern is looked for at the start of the whole name, remote included,
\* and need not reach its end.
IsGeneratedRef(r) ==
    /\ r.remote = ""
    /\ Len(r.path) >= 4
    /\ r.path[1] = "ostree"
    /\ r.path[2] \in Digits
    /\ r.path[3] \in Digits
    /\ r.path[4] \in DigitLed

\* ref_name.split(":", 1)[-1].lstrip()
StripRemote(r) == r.path

\* No dictionary entry: get_reference_dict with base_csum None.
NoCsum == "None"

RECURSIVE FillRefDict(_, _, _)
\* The loop of get_reference_dict over the refs in the order items() gives
\* them: a later ref of the same stripped name replaces the earlier entry.
FillRefDict(ref_dict, order, out_all_refs) ==
    IF order = <<>> THEN ref_dict
    ELSE LET r == Head(order)
         IN  FillRefDict(IF IsGeneratedRef(r) THEN ref_dict
                         ELSE With(ref_dict, StripRemote(r), out_all_refs[r]),
                         Tail(order), out_all_refs)

\* get_reference_dict(repopath, base_csum), the repository at repopath
\* listing out_all_refs, iterated in the order given.
GetReferenceDict(out_all_refs, order, base_csum) ==
    FillRefDict(IF base_csum = NoCsum THEN EmptyDir
                ELSE With(EmptyDir, OSTREE_BASE_REF, base_csum),
                order, out_all_refs)

\* A call of get_reference_dict and what it returned.
RefsCall(out_all_refs, order, base_csum, ret) ==
    [out_all_refs |-> out_all_refs, order |-> order, base_csum |-> base_csum,
     ret |-> ret]

NoRefs == RefsCall(EmptyDir, <<>>, NoCsum, EmptyDir)

\* ------------------------------------------------------------------ union

\* An entry of a changes directory: its name is OSTREE_WHITEOUT_PREFIX
\* followed by name (wh), or name itself.
DirEntry(wh, name) == [wh |-> wh, name |-> name]

OSTREE_WHITEOUT_PREFIX == ".wh."

\* OSTREE_OPAQUE_WHITEOUT_NAME, ".wh..wh..opq": the prefix and ".wh..opq".
OSTREE_OPAQUE_WHITEOUT_NAME == DirEntry(TRUE, ".wh..opq")

\* ApplyChanges keeping the files the tree has already.
ApplyChangesLowerWins(tree, dir) ==
    LET masked == IF OSTREE_OPAQUE_WHITEOUT_NAME \in DOMAIN dir THEN EmptyDir
                  ELSE tree
        kept == { n \in DOMAIN masked : DirEntry(TRUE, n) \notin DOMAIN dir }
        added == { e.name : e \in { x \in DOMAIN dir : ~x.wh } }
    IN  [n \in kept \cup added |->
            IF n \in kept THEN masked[n] ELSE dir[DirEntry(FALSE, n)]]

\* One changes directory merged on a tree: an opaque whiteout masks the
\* tree, a whiteout deletes the path it names from the tree, and the regular
\* files of the directory are added or replace the tree's.
ApplyChanges(tree, dir) ==
    LET masked == IF OSTREE_OPAQUE_WHITEOUT_NAME \in DOMAIN dir THEN EmptyDir
                  ELSE tree
        kept == { n \in DOMAIN masked : DirEntry(TRUE, n) \notin DOMAIN dir }
        added == { e.name : e \in { x \in DOMAIN dir : ~x.wh } }
    IN  [n \in kept \cup added |->
            IF n \in added THEN dir[DirEntry(FALSE, n)] ELSE masked[n]]

RECURSIVE Union(_, _)
\* union(changes_dirs, base commit): the directories merged in the order
\* given on the tree of the base commit.
Union(base, changes_dirs) ==
    IF changes_dirs = <<>> THEN base
    ELSE Union(ApplyChanges(base, Head(changes_dirs)), Tail(changes_dirs))

\* A call of union and the tree of the commit it wrote.
UnionCall(base, changes_dirs, tree) ==
    [base |-> base, changes_dirs |-> changes_dirs, tree |-> tree]

NoUnion == UnionCall(EmptyDir, <<>>, EmptyDir)

\* What the calls made on the repository left, one record for each function.
\* ------------------------------------------------------ get_kernel_version

\* One entry of /usr/lib/modules as ls reports it, with the names of the
\* entries ls reports under it when it is a directory.
ModuleEntry(name, type, files) == [name |-> name, type |-> type, files |-> files]

\* A commit: whether /usr/lib/modules exists in it and what ls enumerates
\* there, in enumeration order.
Commit(exists, modules) == [exists |-> exists, modules |-> modules]

RECURSIVE FirstKernelDirUnchecked(_)
\* FirstKernelDir taking the first directory, vmlinuz or not.
FirstKernelDirUnchecked(module_files) ==
    IF module_files = <<>> THEN ""
    ELSE IF Head(module_files).type = "directory"
    THEN Head(module_files).name
    ELSE FirstKernelDirUnchecked(Tail(module_files))

RECURSIVE FirstKernelDir(_)
\* The loop of get_kernel_version over the filtered entries: the first
\* directory whose listing has an entry named vmlinuz, "" when the loop ends.
FirstKernelDir(module_files) ==
    IF module_files = <<>> THEN ""
    ELSE IF /\ Head(module_files).type = "directory"
            /\ \E file \in Head(module_files).files : file = "vmlinuz"
    THEN Head(module_files).name
    ELSE FirstKernelDir(Tail(module_files))

KernelCall(commit, status, kernel_version) ==
    [commit |-> commit, status |-> status, kernel_version |-> kernel_version]

\* ls raises PathNotExistError when the commit has no /usr/lib/modules.
GetKernelVersion(commit) ==
    IF ~commit.exists THEN KernelCall(commit, "PathNotExistError", "")
    ELSE KernelCall(commit, "returned", FirstKernelDir(commit.modules))

NoKernel == KernelCall(Commit(FALSE, <<>>), "none", "")

\* --------------------------------------------------------- pull_local_refs

\* One item of the refs dict, with what `ostree pull-local` does with its
\* checksum: ok is FALSE when the command exits with a non-zero status.
RefItem(ref_name, ref_csum, ok) ==
    [ref_name |-> ref_name, ref_csum |-> ref_csum, ok |-> ok]

\* The call and the destination repository: the items of refs in iteration
\* order, the items the loop has not processed yet, the commits the
\* repository holds, the refs set in it, and how the call stands.
PullState(refs, items, commits, set, status) ==
    [refs |-> refs, items |-> items, commits |-> commits, set |-> set,
     status |-> status]

NoPull == PullState(<<>>, <<>>, {}, EmptyDir, "none")

\* The for statement: the next item, or the end of the function.
PullNext(p) ==
    [p EXCEPT !.status = IF p.items = <<>> THEN "returned" ELSE "running"]

\* pull_local_refs is entered with the dict refs and a repository without
\* commits or refs.
PullEnter(refs) == PullNext(PullState(refs, refs, {}, EmptyDir, "running"))

\* PullLocal without check=True: a failed command goes unnoticed.
PullLocalUnchecked(p) ==
    LET item == Head(p.items)
    IN  [p EXCEPT !.commits = IF item.ok THEN @ \cup {item.ref_csum} ELSE @,
                  !.status = "pulled"]

\* subprocess.run(["ostree", "pull-local", ...], check=True): the commit is in
\* the repository afterwards, or CalledProcessError leaves the loop and
\* TorizonCoreBuilderError is raised from it.
PullLocal(p) ==
    LET item == Head(p.items)
    IN  IF item.ok
        THEN [p EXCEPT !.commits = @ \cup {item.ref_csum}, !.status = "pulled"]
        ELSE [p EXCEPT !.status = "TorizonCoreBuilderError"]

\* repo.set_collection_ref_immediate(CollectionRef(None, ref_name), ref_csum),
\* then the next item.
SetCollectionRef(p) ==
    LET item == Head(p.items)
    IN  PullNext([p EXCEPT !.set = With(@, item.ref_name, item.ref_csum),
                           !.items = Tail(@)])

\* ------------------------------------- serve_ostree_start, serve_ostree_stop

\* The HTTP server and its two threads.  main is where the main thread
\* stands: before serve_ostree_start ("idle"), after it ("serving"), in
\* serve_ostree_stop before and after HTTPServer.shutdown has set the request
\* ("shutdown", "waiting"), back from it ("returned").  thread is where the
\* HTTP thread stands: not started ("none"), started and not yet in
\* serve_forever ("ready"), at the loop condition ("loop"), in select
\* ("select"), handling a request ("handle"), in the finally block before and
\* after the request is reset ("finally", "set"), ended ("exited").
\* shutdown_request and is_shut_down are the server's flag and event, served
\* counts the requests handled, and early records that the request was set
\* before the thread had entered serve_forever.
Http(main, thread, shutdown_request, is_shut_down, served, early) ==
    [main |-> main, thread |-> thread, shutdown_request |-> shutdown_request,
     is_shut_down |-> is_shut_down, served |-> served, early |-> early]

NoHttp == Http("idle", "none", FALSE, FALSE, 0, FALSE)

\* serve_ostree_start: HTTPThread(...) constructs the server, whose flag and
\* event start unset, and start() starts the thread.
ServeOstreeStart(h) == [h EXCEPT !.main = "serving", !.thread = "ready"]

\* serve_ostree_stop calls HTTPThread.shutdown, which logs and calls
\* HTTPServer.shutdown.
ServeOstreeStop(h) == [h EXCEPT !.main = "shutdown"]

\* HTTPServer.shutdown: the request is set ...
ShutdownRequest(h) ==
    [h EXCEPT !.main = "waiting", !.shutdown_request = TRUE,
              !.early = h.thread = "ready"]

\* ... and the caller waits for the event.
ShutdownWaited(h) == [h EXCEPT !.main = "returned"]

\* ServeForeverEnter forgetting a request made before the loop was entered.
ServeForeverEnterResets(h) ==
    [h EXCEPT !.thread = "loop", !.is_shut_down = FALSE,
              !.shutdown_request = FALSE]

\* HTTPThread.run: serve_forever is entered and clears the event.
ServeForeverEnter(h) == [h EXCEPT !.thread = "loop", !.is_shut_down = FALSE]

\* while not shutdown_request
ServeForeverTest(h) ==
    [h EXCEPT !.thread = IF h.shutdown_request THEN "finally" ELSE "select"]

\* select returns, with a request ready or not; a request set meanwhile
\* leaves the loop.
ServeForeverSelect(h, ready) ==
    [h EXCEPT !.thread = IF h.shutdown_request THEN "finally"
                         ELSE IF ready THEN "handle" ELSE "loop"]

\* The request is handled.
ServeForeverHandle(h) == [h EXCEPT !.thread = "loop", !.served = @ + 1]

\* An exception leaves the loop.
ServeForeverRaise(h) == [h EXCEPT !.thread = "finally"]

\* finally: the request is reset ...
ServeForeverReset(h) == [h EXCEPT !.thread = "set", !.shutdown_request = FALSE]

\* ... and the event set; run returns and the thread ends.
ServeForeverSet(h) == [h EXCEPT !.thread = "exited", !.is_shut_down = TRUE]

NoOst ==
    [refs |-> NoRefs, union |-> NoUnion, kver |-> NoKernel, pull |-> NoPull,
     http |-> NoHttp]

\* --------------------------------------- one call at a time, run to its end

Init ==
    /\ fs \in FreshStorages
    /\ run = [p \in Procs |-> Idle]
    /\ last = Idle
    /\ dep = NoDeploy
    /\ host = NoResolve
    /\ ost = NoOst

Finish(r) ==
    /\ fs' = r.fs
    /\ last' = r.loc
    /\ UNCHANGED <<run, dep, host, ost>>

\* The call of op with arguments a, run to its end.
Whole(op, a) ==
    LET f == Entering(fs, {}) IN Finish(RunCall(f, Call(op, a, f)))

DtoApply(a) ==
    /\ CanApply(fs, a)
    /\ Whole("apply", a)

DtoRemoveSingle(a) ==
    /\ a \in RemoveInputs
    /\ Whole("remove", a)

DtoRemoveAll ==
    /\ \A p \in Procs : run[p] = Idle
    /\ Whole("remove_all", NoArgs)

DtoList(a) ==
    /\ a \in ListInputs
    /\ Whole("list", a)

DtoStatus ==
    /\ \A p \in Procs : run[p] = Idle
    /\ Whole("status", NoArgs)

Next ==
    \/ \E a \in ApplyInputs : DtoApply(a)
    \/ \E a \in RemoveInputs : DtoRemoveSingle(a)
    \/ DtoRemoveAll
    \/ \E a \in ListInputs : DtoList(a)
    \/ DtoStatus

Spec == Init /\ [][Next]_vars

\* ------------------- one call at a time, statement group by statement group,
\* ------------------- and a call may be cut short

Running(p) == run[p] # Idle

\* A call begins when no call is in progress; last describes the call that
\* ended last, until the next one begins.
Begin(p, op, a) ==
    /\ \A q \in Procs : ~Running(q)
    /\ op = "apply" => CanApply(fs, a)
    /\ fs' = Entering(fs, {})
    /\ run' = [run EXCEPT ![p] = Call(op, a, fs')]
    /\ last' = Idle
    /\ UNCHANGED <<dep, host, ost>>

BeginApply(p) == \E a \in ApplyInputs : Begin(p, "apply", a)

BeginRemoveSingle(p) == \E a \in RemoveInputs : Begin(p, "remove", a)

BeginRemoveAll(p) == Begin(p, "remove_all", NoArgs)

\* The call of p executes its next statement group.
Advance(p) ==
    /\ Running(p)
    /\ LET r == Step(fs, run[p])
       IN  /\ fs' = r.fs
           /\ IF r.loc.pc = "done"
              THEN /\ last' = r.loc
                   /\ run' = [run EXCEPT ![p] = Idle]
              ELSE /\ run' = [run EXCEPT ![p] = r.loc]
                   /\ UNCHANGED last
    /\ UNCHANGED <<dep, host, ost>>

\* The call of p ends where it stands: the process is interrupted or killed,
\* or the file operation it was about to make raises OSError.
Interrupt(p) ==
    /\ Running(p)
    /\ last' = End(run[p], "Interrupted", "raised")
    /\ run' = [run EXCEPT ![p] = Idle]
    /\ UNCHANGED <<fs, dep, host, ost>>

\* The process of the command line.
Main == "p1"

NextFaults ==
    \/ BeginApply(Main)
    \/ BeginRemoveSingle(Main)
    \/ BeginRemoveAll(Main)
    \/ Advance(Main)
    \/ Interrupt(Main)

SpecFaults == Init /\ [][NextFaults]_vars

\* ------------------- two processes, one dto_apply each, no serialization

InProgress(p) == run[p].pc \notin {"none", "done"}

\* The temporary files of the calls in progress.
TmpInUse ==
    UNION { {run[p].dtob_tmp, run[p].dtb_tmp} : p \in { q \in Procs : InProgress(q) } }

RECURSIVE SumWords(_)
\* The words of the target basenames of the calls of the processes ps.
SumWords(ps) ==
    IF ps = {} THEN 0
    ELSE LET p == CHOOSE q \in ps : TRUE
         IN  Len(TargetBasename(run[p].args.dtos).stem) + SumWords(ps \ {p})

\* Process p starts its dto_apply, whatever the other process is doing.
ConcBeginApply(p) ==
    /\ run[p] = Idle
    /\ \E a \in ApplyInputs :
         /\ CanApply(fs, a)
         /\ Len(GetAppliedOverlaysBaseNames(fs))
              + SumWords({ q \in Procs : InProgress(q) })
              + Len(TargetBasename(a.dtos).stem) <= MaxWords
         /\ fs' = Entering(fs, TmpInUse)
         /\ run' = [q \in Procs |->
                      IF q = p
                      THEN [Call("apply", a, fs') EXCEPT
                              !.overlap = \E o \in Procs : InProgress(o)]
                      ELSE IF InProgress(q)
                      THEN [run[q] EXCEPT !.overlap = TRUE]
                      ELSE run[q]]
    /\ UNCHANGED <<last, dep, host, ost>>

\* The call of p executes its next statement group; when it ends its record
\* stays with the process.
ConcAdvance(p) ==
    /\ InProgress(p)
    /\ LET r == Step(fs, run[p])
       IN  /\ fs' = r.fs
           /\ run' = [run EXCEPT ![p] = r.loc]
           /\ last' = IF r.loc.pc = "done" THEN r.loc ELSE last
    /\ UNCHANGED <<dep, host, ost>>

NextConcurrent ==
    \E p \in Procs :
        \/ ConcBeginApply(p)
        \/ ConcAdvance(p)

SpecConcurrent == Init /\ [][NextConcurrent]_vars

\* ------------- one call at a time, every apply with test_apply, plain names

TestedInputs ==
    { a \in ApplyInputs : a.test_apply /\ Len(a.dtos.stem) = 1 }

NextTested ==
    \/ \E a \in TestedInputs : DtoApply(a)
    \/ \E a \in RemoveInputs : DtoRemoveSingle(a)
    \/ DtoRemoveAll

SpecTested == Init /\ [][NextTested]_vars

\* ------------------------------------- one dto deploy command, step by step

RECURSIVE WordsIn(_)
\* The words of the target basenames of the sources paths.
WordsIn(paths) ==
    IF paths = <<>> THEN 0
    ELSE Len(Head(paths).stem) + WordsIn(Tail(paths))

PathLists == UNION { [1..n -> Sources] : n \in 0..MaxPaths }

DeployInputs ==
    { DeployArgs(ps, c, f, t) :
        ps \in { q \in PathLists : WordsIn(q) + 1 <= MaxWords },
        c \in BOOLEAN, f \in BOOLEAN, t \in DtbArgs }

DeployBegin ==
    /\ dep.pc = "idle"
    /\ \E a \in DeployInputs :
         dep' = [dep EXCEPT !.pc = "download", !.args = a,
                            !.todo = a.dtos_paths]
    /\ UNCHANGED <<fs, run, last, host, ost>>

\* images_cli.do_images_download with remove_storage: the storage directory
\* is made anew from the image downloaded, or the download fails.
DeployDownload ==
    /\ dep.pc = "download"
    /\ \/ /\ fs' \in { f \in FreshStorages : f.type = "tezi" }
          /\ dep' = Proceed(dep, "download", NoName, TRUE, "checkout")
       \/ /\ dep' = Proceed(dep, "download", NoName, FALSE, "checkout")
          /\ UNCHANGED fs
    /\ UNCHANGED <<run, last, host, ost>>

\* dt_cli.do_dt_checkout
DeployCheckout ==
    /\ dep.pc = "checkout"
    /\ \E ok \in BOOLEAN :
         dep' = Proceed(dep, "checkout", NoName, ok,
                        IF dep.args.clear THEN "clear"
                        ELSE AfterCheckout(dep, dep.todo))
    /\ UNCHANGED <<fs, run, last, host, ost>>

\* do_dto_remove with all: dto_remove_all
DeployClear ==
    /\ dep.pc = "clear"
    /\ LET f == Entering(fs, {})
           r == RunCall(f, Call("remove_all", NoArgs, f))
       IN  /\ fs' = r.fs
           /\ last' = r.loc
           /\ dep' = Proceed(dep, "remove_all", NoName, r.loc.status = "ok",
                             AfterCheckout(dep, dep.todo))
    /\ UNCHANGED <<run, host, ost>>

\* DeployApply going on to the next step whatever the apply ended with.
DeployApplyUnchecked ==
    /\ dep.pc = "apply"
    /\ LET f == Entering(fs, {})
           a == ApplyArgs(Head(dep.todo), dep.args.device_tree, FALSE,
                          ~dep.args.force)
           r == RunCall(f, Call("apply", a, f))
       IN  /\ fs' = r.fs
           /\ last' = r.loc
           /\ dep' = [Proceed(dep, "apply", Head(dep.todo),
                              r.loc.status = "ok",
                              AfterCheckout(dep, Tail(dep.todo)))
                        EXCEPT !.todo = Tail(dep.todo),
                               !.pc = AfterCheckout(dep, Tail(dep.todo))]
    /\ UNCHANGED <<run, host, ost>>

\* do_dto_apply of the next source of the command line; sys.exit and
\* exceptions of the apply end the command.
DeployApply ==
    /\ dep.pc = "apply"
    /\ LET f == Entering(fs, {})
           a == ApplyArgs(Head(dep.todo), dep.args.device_tree, FALSE,
                          ~dep.args.force)
           r == RunCall(f, Call("apply", a, f))
       IN  /\ fs' = r.fs
           /\ last' = r.loc
           /\ dep' = [Proceed(dep, "apply", Head(dep.todo),
                              r.loc.status = "ok",
                              AfterCheckout(dep, Tail(dep.todo)))
                        EXCEPT !.todo = Tail(dep.todo)]
    /\ UNCHANGED <<run, host, ost>>

UnionBranch == "dto_deploy"

\* union_cli.union: the changes are committed to the union branch, or the
\* union fails.
DeployUnion ==
    /\ dep.pc = "union"
    /\ \/ dep' = [Proceed(dep, "union", NoName, TRUE, "deploy")
                    EXCEPT !.branches = With(dep.branches, UnionBranch,
                                             Tree(fs))]
       \/ dep' = Proceed(dep, "union", NoName, FALSE, "deploy")
    /\ UNCHANGED <<fs, run, last, host, ost>>

\* deploy_cli.do_deploy_ostree_remote with args.ref the union branch
DeployRemote ==
    /\ dep.pc = "deploy"
    /\ \/ dep' = [Proceed(dep, "deploy", NoName, TRUE, "done")
                    EXCEPT !.device = [ref |-> UnionBranch,
                                       tree |-> dep.branches[UnionBranch]]]
       \/ dep' = Proceed(dep, "deploy", NoName, FALSE, "done")
    /\ UNCHANGED <<fs, run, last, host, ost>>

NextDeploy ==
    \/ DeployBegin
    \/ DeployDownload
    \/ DeployCheckout
    \/ DeployClear
    \/ DeployApply
    \/ DeployUnion
    \/ DeployRemote

SpecDeploy == Init /\ [][NextDeploy]_vars

\* ------------------------------------------------- resolving host names

HostInputs ==
    { HostName(<<"dev">>), HostName(<<"dev", "local">>),
      HostName(<<"local">>), HostName(<<"xlocal">>),
      HostName(<<"badhost", "example", "com">>),
      HostName(<<"dev", "local", "">>), HostName(<<"a", "b", "local">>),
      IpLiteral(<<"192", "168", "1", "5">>) }

MdnsSources == {"None", "10.0.0.9"}

DoResolveHostname ==
    /\ \E h \in HostInputs, src \in MdnsSources :
         \E dns \in DnsOutcomes(h), mdns \in MdnsOutcomes :
           host' = Resolved("resolve_hostname", h, src, dns, mdns,
                            ResolveHostname(h, src, dns, mdns))
    /\ UNCHANGED <<fs, run, last, dep, ost>>

DoResolveRemoteHost ==
    /\ \E h \in HostInputs, src \in MdnsSources :
         \E dns \in DnsOutcomes(h), mdns \in MdnsOutcomes :
           host' = Resolved("resolve_remote_host", h, src, dns, mdns,
                            ResolveRemoteHost(h, src, dns, mdns))
    /\ UNCHANGED <<fs, run, last, dep, ost>>

NextResolve ==
    \/ DoResolveHostname
    \/ DoResolveRemoteHost

SpecResolve == Init /\ [][NextResolve]_vars

\* ------------------------------------------------ the refs of a repository

RefNames ==
    { RefName("", FALSE, <<"base">>),
      RefName("origin", FALSE, <<"base">>),
      RefName("", FALSE, <<"torizon", "dev">>),
      RefName("origin", TRUE, <<"torizon", "dev">>),
      RefName("", FALSE, <<"ostree", "0", "1", "0">>),
      RefName("origin", FALSE, <<"ostree", "0", "1", "0">>),
      RefName("", FALSE, <<"ostree", "0", "1", "0-rc">>) }

Csums == {"c1", "c2"}

\* The sequences without repetition of the members of the set S.
Orders(S) ==
    { o \in [1..Cardinality(S) -> S] : \A i, j \in DOMAIN o : o[i] = o[j] => i = j }

\* get_reference_dict keeps nothing from one call to the next: one call is
\* made, on any repository and with any base_csum.
DoGetReferenceDict ==
    /\ ost.refs = NoRefs
    /\ \E names \in SUBSET RefNames :
         /\ Cardinality(names) <= MaxRefs
         /\ \E out_all_refs \in [names -> Csums], order \in Orders(names),
               base_csum \in Csums \cup {NoCsum} :
              ost' = [ost EXCEPT !.refs =
                        RefsCall(out_all_refs, order, base_csum,
                                 GetReferenceDict(out_all_refs, order,
                                                  base_csum))]
    /\ UNCHANGED <<fs, run, last, dep, host>>

NextRefs == DoGetReferenceDict

SpecRefs == Init /\ [][NextRefs]_vars

\* ---------------------------------------------------- the union of changes

\* The trees of the base commits.
BaseTrees ==
    { EmptyDir, With(EmptyDir, "a.txt", "1"),
      With(With(EmptyDir, "a.txt", "1"), "b.txt", "1") }

\* The changes directories: any of a.txt (holding 2 or 3), the whiteout of
\* a.txt, b.txt and the opaque whiteout.
ChangesDirs ==
    { [e \in es |-> IF e = DirEntry(FALSE, "a.txt") THEN c
                    ELSE IF e.wh THEN "" ELSE "2"] :
        es \in (SUBSET { DirEntry(FALSE, "a.txt"), DirEntry(TRUE, "a.txt"),
                         DirEntry(FALSE, "b.txt"),
                         OSTREE_OPAQUE_WHITEOUT_NAME }) \ {{}},
        c \in {"2", "3"} }

\* union keeps nothing from one call to the next: one call is made.
DoUnion ==
    /\ ost.union = NoUnion
    /\ \E base \in BaseTrees, n \in 1..MaxDirs :
         \E changes_dirs \in [1..n -> ChangesDirs] :
           ost' = [ost EXCEPT !.union =
                     UnionCall(base, changes_dirs, Union(base, changes_dirs))]
    /\ UNCHANGED <<fs, run, last, dep, host>>

NextUnion == DoUnion

SpecUnion == Init /\ [][NextUnion]_vars

\* ------------------------------------------- get_kernel_version, one call

ModuleNames == {"5.4.1", "5.4.2", "build"}

\* A directory with any of vmlinuz and modules.dep in it, or a regular file.
ModuleEntries ==
    { ModuleEntry(n, "directory", files) :
        n \in ModuleNames, files \in SUBSET {"vmlinuz", "modules.dep"} }
    \cup { ModuleEntry(n, "regular", {}) : n \in ModuleNames }

\* The commits: without /usr/lib/modules, or with entries of distinct names.
Commits ==
    { Commit(FALSE, <<>>) } \cup
    { Commit(TRUE, m) :
        m \in { x \in UNION { [1..k -> ModuleEntries] : k \in 0..MaxModules } :
                  \A i, j \in 1..Len(x) : x[i].name = x[j].name => i = j } }

\* get_kernel_version keeps nothing from one call to the next: one call is
\* made.
DoGetKernelVersion ==
    /\ ost.kver = NoKernel
    /\ \E commit \in Commits :
         ost' = [ost EXCEPT !.kver = GetKernelVersion(commit)]
    /\ UNCHANGED <<fs, run, last, dep, host>>

NextKernel == DoGetKernelVersion

SpecKernel == Init /\ [][NextKernel]_vars

\* ---------------------------------------------- pull_local_refs, one call

PullRefNames == {"base", "torizon/dev", "torizon/rel"}

PullCsums == {"c1", "c2"}

RefItems ==
    { RefItem(n, c, ok) : n \in PullRefNames, c \in PullCsums, ok \in BOOLEAN }

\* The dicts refs: items of distinct names, in iteration order.
RefDicts ==
    { x \in UNION { [1..k -> RefItems] : k \in 0..MaxPulls } :
        \A i, j \in 1..Len(x) : x[i].ref_name = x[j].ref_name => i = j }

\* One call is made, on a repository of its own.
PullBegin ==
    /\ ost.pull = NoPull
    /\ \E refs \in RefDicts : ost' = [ost EXCEPT !.pull = PullEnter(refs)]
    /\ UNCHANGED <<fs, run, last, dep, host>>

PullCommand ==
    /\ ost.pull.status = "running"
    /\ ost' = [ost EXCEPT !.pull = PullLocal(ost.pull)]
    /\ UNCHANGED <<fs, run, last, dep, host>>

PullSetRef ==
    /\ ost.pull.status = "pulled"
    /\ ost' = [ost EXCEPT !.pull = SetCollectionRef(ost.pull)]
    /\ UNCHANGED <<fs, run, last, dep, host>>

NextPull ==
    \/ PullBegin
    \/ PullCommand
    \/ PullSetRef

SpecPull == Init /\ [][NextPull]_vars

\* ------------------------------------- the HTTP thread and the main thread

HttpStep(h) ==
    /\ ost' = [ost EXCEPT !.http = h]
    /\ UNCHANGED <<fs, run, last, dep, host>>

MainStart == ost.http.main = "idle" /\ HttpStep(ServeOstreeStart(ost.http))

MainStop == ost.http.main = "serving" /\ HttpStep(ServeOstreeStop(ost.http))

MainRequest == ost.http.main = "shutdown" /\ HttpStep(ShutdownRequest(ost.http))

\* Event.wait returns once the event is set.
MainWait ==
    /\ ost.http.main = "waiting"
    /\ ost.http.is_shut_down
    /\ HttpStep(ShutdownWaited(ost.http))

ThreadEnter == ost.http.thread = "ready" /\ HttpStep(ServeForeverEnter(ost.http))

ThreadTest == ost.http.thread = "loop" /\ HttpStep(ServeForeverTest(ost.http))

ThreadSelect ==
    /\ ost.http.thread = "select"
    /\ \E ready \in { r \in BOOLEAN : r => ost.http.served < MaxRequests } :
         HttpStep(ServeForeverSelect(ost.http, ready))

ThreadHandle == ost.http.thread = "handle" /\ HttpStep(ServeForeverHandle(ost.http))

ThreadRaise ==
    /\ ost.http.thread \in {"select", "handle"}
    /\ HttpStep(ServeForeverRaise(ost.http))

ThreadReset == ost.http.thread = "finally" /\ HttpStep(ServeForeverReset(ost.http))

ThreadSet == ost.http.thread = "set" /\ HttpStep(ServeForeverSet(ost.http))

\* The steps of the HTTP thread that are not failures.
ThreadRuns ==
    \/ ThreadEnter
    \/ ThreadTest
    \/ ThreadSelect
    \/ ThreadHandle
    \/ ThreadReset
    \/ ThreadSet

\* The steps of the main thread inside HTTPServer.shutdown.
MainShutsDown ==
    \/ MainRequest
    \/ MainWait

NextServe ==
    \/ MainStart
    \/ MainStop
    \/ MainShutsDown
    \/ ThreadRuns
    \/ ThreadRaise

\* Both threads are scheduled: a thread that can take a step takes one.
\* Whether and when the main thread calls serve_ostree_stop is left open.
SpecServe ==
    /\ Init
    /\ [][NextServe]_vars
    /\ WF_vars(ThreadRuns)
    /\ WF_vars(MainShutsDown)

\* ------------------------------------------------------------- the claims

\* The call that ended last.
Ended(op) == last.op = op /\ last.pc = "done"

\* The storage directory passes the check every dto operation starts with.
Supported(f) == f.unpacked /\ f.type # "wic"

Applied(f) == GetAppliedOverlaysBaseNames(f)

Staged(f) == DOMAIN f.staged

Count(s, x) == Cardinality({i \in 1..Len(s) : s[i] = x})

RECURSIVE Others(_, _)
\* The list s without the entries x, order kept.
Others(s, x) ==
    IF s = <<>> THEN <<>>
    ELSE IF Head(s) = x THEN Others(Tail(s), x)
    ELSE <<Head(s)>> \o Others(Tail(s), x)

\* The applied list applies, in order, on the device tree in use.
Applicable(f) ==
    LET paths == GetAppliedOverlayPaths(f, Applied(f))
    IN  /\ NoPath \notin Range(paths)
        /\ ModifyDtbByOverlays(f, CurrentDtb,
                               [i \in 1..Len(paths) |-> ReadBlob(f, paths[i])])

\* C1: on a storage directory whose base image enables no overlay, after
\* each completed call the names of overlays.txt are exactly the names of the
\* blobs of the staged overlays directory.
C1_ManifestMatchesStaged ==
    (last.pc = "done" /\ ~fs.base.manifest.exists)
        => Range(Applied(fs)) = Staged(fs)

\* C2: dto_apply without allow_reapply of a source whose target basename is in
\* the applied list ends with Conflict and exit code 1, having written nothing:
\* overlays.txt, the staged blobs and the temporary directory are as before.
C2_ConflictBeforeAnyWrite ==
    (/\ Ended("apply")
     /\ ~last.args.allow_reapply
     /\ TargetBasename(last.args.dtos) \in Range(Applied(last.pre)))
        => /\ last.outcome = "Conflict"
           /\ last.status = "exit1"
           /\ last.dtob_tmp = 0
           /\ fs = last.pre

\* C2 happens, on a source that would not have compiled.
C2_Witness ==
    /\ Ended("apply")
    /\ last.outcome = "Conflict"
    /\ ~last.args.dtos.ok
    /\ Staged(fs) # {}

\* C3: after a successful dto_apply with allow_reapply of an overlay that is
\* in the applied list, its basename is in overlays.txt exactly once, as the
\* last entry, and the other entries are in the order they had.
C3_ReapplyReplaces ==
    (/\ Ended("apply")
     /\ last.outcome = "Applied"
     /\ last.args.allow_reapply
     /\ last.target \in Range(Applied(last.pre)))
        => /\ Count(Applied(fs), last.target) = 1
           /\ Applied(fs)[Len(Applied(fs))] = last.target
           /\ Others(Applied(fs), last.target)
                = Others(Applied(last.pre), last.target)

\* C4: after dto_remove_all on a storage directory that passes the image
\* check, whatever was staged or enabled before, overlays.txt is the empty
\* directive, the applied list read back is empty and no blob is staged.
C4_RemoveAllClears ==
    (Ended("remove_all") /\ Supported(last.pre))
        => /\ last.outcome = "Cleared"
           /\ fs.manifest = Directive(<<>>)
           /\ Applied(fs) = <<>>
           /\ Staged(fs) = {}

\* C4 happens, from a state with a staged blob and an overlay of the base
\* image enabled.
C4_Witness ==
    /\ Ended("remove_all")
    /\ last.outcome = "Cleared"
    /\ Staged(last.pre) # {}
    /\ BaseOverlay \in Range(Applied(last.pre))

\* C5: with every apply run with test_apply, the list of overlays.txt always
\* applies, in order, on the device tree.
C5_ManifestAlwaysApplicable ==
    Supported(fs) => Applicable(fs)

\* C6: a dto_apply that ends in a validation failure leaves overlays.txt and
\* the staged overlays directory as they were.
C6_FailedValidationWritesNothing ==
    (/\ Ended("apply")
     /\ last.outcome \in {"CompileError", "AmbiguousTarget", "NotApplicable",
                          "NotFound"})
        => /\ fs.manifest = last.pre.manifest
           /\ fs.staged = last.pre.staged

\* C6 happens: the test-apply chain fails with blobs staged.
C6_Witness ==
    /\ Ended("apply")
    /\ last.outcome = "NotApplicable"
    /\ Staged(fs) # {}

\* The staged blobs overlays.txt does not list.
Orphans(f) == Staged(f) \ Range(Applied(f))

\* C7: a call that fails at any point leaves overlays.txt whole and no staged
\* blob unlisted that was listed before.
C7_FailureLeavesConsistent ==
    (last.pc = "done" /\ last.status # "ok")
        => /\ fs.manifest.exists => fs.manifest.directive
           /\ Orphans(fs) \subseteq Orphans(last.pre)

\* C8: when dto_apply fails after it made its temporary files, they are gone
\* when it ends.
C8_TemporaryFilesRemoved ==
    (Ended("apply") /\ last.status # "ok")
        => /\ last.dtob_tmp \notin DOMAIN fs.tmp
           /\ last.dtb_tmp \notin DOMAIN fs.tmp

\* C9: no call changes the base image, and removing an overlay whose blob is
\* the base image's changes overlays.txt only.
C9_BaseImageUntouched ==
    last.pc = "done"
        => /\ fs.base = last.pre.base
           /\ (Ended("remove") /\ last.dtob_path.dir = "base")
                => fs.staged = last.pre.staged

\* C9 happens: an overlay shipped by the base image was removed.
C9_Witness ==
    /\ Ended("remove")
    /\ last.outcome = "Removed"
    /\ last.dtob_path.dir = "base"
    /\ last.args.dtob_basename \notin Range(Applied(fs))

\* C10: on a storage directory that passes the image check,
\* dto_remove_single of a basename that is not in the applied list ends with
\* NotFound and exit code 1 when presence_required, returns False otherwise,
\* and changes no file.
C10_RemoveAbsent ==
    (/\ Ended("remove")
     /\ Supported(last.pre)
     /\ last.args.dtob_basename \notin Range(Applied(last.pre)))
        => /\ last.args.presence_required
                => last.outcome = "NotFound" /\ last.status = "exit1"
           /\ ~last.args.presence_required
                => last.status = "ok" /\ ~last.ret
           /\ fs = last.pre

\* C10 happens without presence_required, with overlays applied.
C10_Witness ==
    /\ Ended("remove")
    /\ last.outcome = "NotApplied"
    /\ Applied(fs) # <<>>

\* No name is in the list s twice.
NoDup(s) == \A i, j \in 1..Len(s) : s[i] = s[j] => i = j

\* C11: overlays.txt lists the applied basenames in the order of their most
\* recent application, none twice: a successful dto_apply leaves the earlier
\* entries in their order and the target basename last, a successful
\* dto_remove_single takes out the one entry of the removed basename.
C11_ManifestInApplicationOrder ==
    /\ Supported(fs) => NoDup(Applied(fs))
    /\ (Ended("apply") /\ last.outcome = "Applied")
        => Applied(fs)
             = Others(Applied(last.pre), TargetBasename(last.args.dtos))
                 \o <<TargetBasename(last.args.dtos)>>
    /\ (Ended("remove") /\ last.outcome = "Removed")
        => Applied(fs) = Others(Applied(last.pre), last.args.dtob_basename)

\* The sanity checks of dto list, which come before its image check, fail.
ListSanityFails(l) ==
    /\ l.op = "list"
    /\ \/ ~l.args.overlays_isdir
       \/ l.args.dtb # NoName /\ l.args.dtb.ext \notin {".dtb", ".dts"}

\* The call ended with InvalidOperation, having read no list and made no file.
Rejected ==
    /\ last.outcome = "InvalidOperation"
    /\ last.status \in {"exit1", "raised"}
    /\ last.applied = <<>>
    /\ last.dtob_tmp = 0 /\ last.dtb_tmp = 0
    /\ fs = last.pre

\* C12 as stated: every dto operation on a storage directory that is not
\* unpacked or holds a WIC image ends with InvalidOperation.
C12_EveryOperationRejected ==
    (last.pc = "done" /\ ~Supported(last.pre)) => Rejected

\* C12: every dto operation on a storage directory that is not unpacked or
\* holds a WIC image ends with InvalidOperation before it reads or changes
\* any file, except dto list when the check of its working directory or of
\* --device-tree fails first: then it ends with that error, also before it
\* reads or changes any file.
C12_UnsupportedImageRejected ==
    (last.pc = "done" /\ ~Supported(last.pre))
        => IF ListSanityFails(last)
           THEN /\ last.outcome \in {"MissingOverlaysDir",
                                     "BadDeviceTreeArgument"}
                /\ last.status = "exit1"
                /\ fs = last.pre
           ELSE Rejected

\* C12 happens: dto list, its sanity checks passed, on a WIC image.
C12_Witness ==
    /\ Ended("list")
    /\ ~ListSanityFails(last)
    /\ last.pre.type = "wic"
    /\ last.outcome = "InvalidOperation"

\* The call of last passed the image check and the duplicate check and its
\* source compiled: it went on past the compilation.
Compiled(l) ==
    /\ Supported(l.pre)
    /\ l.args.allow_reapply
         \/ TargetBasename(l.args.dtos) \notin Range(Applied(l.pre))
    /\ l.args.dtos.ok

\* C13: a dto_apply with test_apply and no explicit device tree that gets as
\* far as the device tree (image check and duplicate check passed, source
\* compiled) ends with AmbiguousTarget and exit code 1 whenever the current
\* device tree is not determined exactly, with overlays.txt and the staged
\* blobs as they were; with an exact device tree, an explicit one, or without
\* test_apply, no dto_apply ends with AmbiguousTarget.
C13_AmbiguousTarget ==
    Ended("apply")
        => /\ (/\ Compiled(last)
               /\ last.args.test_apply
               /\ last.args.dtb = NoName
               /\ ~last.pre.base.exact)
                => /\ last.outcome = "AmbiguousTarget"
                   /\ last.status = "exit1"
                   /\ fs.staged = last.pre.staged
                   /\ fs.manifest = last.pre.manifest
           /\ (\/ last.pre.base.exact
               \/ last.args.dtb # NoName
               \/ ~last.args.test_apply)
                => last.outcome # "AmbiguousTarget"

\* C13 happens, with a blob staged before.
C13_Witness ==
    /\ Ended("apply")
    /\ last.outcome = "AmbiguousTarget"
    /\ ~last.pre.base.exact
    /\ Staged(fs) # {}

\* C14: a dto_apply without test_apply looks for no device tree and makes no
\* test-apply; whenever its source compiles and its target basename is not in
\* the applied list it ends applied, the compiled blob staged under the
\* target basename and overlays.txt written with the basename appended to
\* the list; without allow_reapply a target basename in the applied list ends
\* with Conflict all the same.
C14_ForceSkipsTestOnly ==
    (Ended("apply") /\ ~last.args.test_apply)
        => /\ last.dtb = NoName /\ last.dtb_tmp = 0
           /\ last.outcome \notin {"AmbiguousTarget", "NotApplicable"}
           /\ Compiled(last)
                => /\ last.outcome = "Applied"
                   /\ last.target \in Staged(fs)
                   /\ fs.staged[last.target] = last.args.dtos.blob
                   /\ last.target \notin Range(Applied(last.pre))
                        => fs.manifest
                             = Directive(Applied(last.pre) \o <<last.target>>)
           /\ (/\ Supported(last.pre)
               /\ ~last.args.allow_reapply
               /\ last.target \in Range(Applied(last.pre)))
                => last.outcome = "Conflict"

\* C14 happens: an overlay that does not apply on the device tree is applied.
C14_Witness ==
    /\ Ended("apply")
    /\ ~last.args.test_apply
    /\ last.outcome = "Applied"
    /\ Applicable(last.pre)
    /\ ~Applicable(fs)
    /\ Len(last.target.stem) = 1

\* The steps dto deploy with arguments a makes when none fails, in order.
Plan(a) ==
    <<[step |-> "download", arg |-> NoName],
      [step |-> "checkout", arg |-> NoName]>>
    \o (IF a.clear THEN <<[step |-> "remove_all", arg |-> NoName]>>
        ELSE <<>>)
    \o [i \in 1..Len(a.dtos_paths) |->
          [step |-> "apply", arg |-> a.dtos_paths[i]]]
    \o <<[step |-> "union", arg |-> NoName],
         [step |-> "deploy", arg |-> NoName]>>

\* A step of the run failed.
Failed(d) == \E i \in 1..Len(d.steps) : ~d.steps[i].ok

\* C15: the steps of a dto deploy run are, in order, download, checkout,
\* remove-all (only with --clear), the apply of each source in command-line
\* order, union into the branch dto_deploy, remote deploy of that branch; a
\* step is made only after every earlier step succeeded; once a step failed no
\* commit is written to the branch and the device gets nothing.
C15_DeployStepsInOrder ==
    /\ Len(dep.steps) <= Len(Plan(dep.args))
    /\ \A i \in 1..Len(dep.steps) :
         /\ dep.steps[i].step = Plan(dep.args)[i].step
         /\ dep.steps[i].arg = Plan(dep.args)[i].arg
         /\ i < Len(dep.steps) => dep.steps[i].ok
    /\ DOMAIN dep.branches \subseteq {UnionBranch}
    /\ UnionBranch \in DOMAIN dep.branches
         => /\ \E i \in 1..Len(dep.steps) :
                 dep.steps[i].step = "union" /\ dep.steps[i].ok
            /\ dep.branches[UnionBranch] = Tree(fs)
    /\ dep.device # NoDevice
         => /\ ~Failed(dep)
            /\ dep.pc = "done"
            /\ dep.device.ref = UnionBranch
            /\ dep.device.tree = dep.branches[UnionBranch]
    /\ (\E i \in 1..Len(dep.steps) :
          dep.steps[i].step \in {"download", "checkout", "remove_all", "apply"}
          /\ ~dep.steps[i].ok)
         => /\ dep.pc = "failed"
            /\ dep.branches = EmptyDir
            /\ dep.device = NoDevice

\* C15 happens: the second apply of the same source ends with Conflict after
\* the first succeeded, and the run ends there.
C15_Witness ==
    /\ dep.pc = "failed"
    /\ Len(dep.steps) >= 4
    /\ dep.steps[Len(dep.steps)].step = "apply"
    /\ dep.steps[Len(dep.steps) - 1].step = "apply"
    /\ last.outcome = "Conflict"
    /\ Staged(fs) # {}
    /\ dep.branches = EmptyDir

\* The multicast-DNS queries the call of host sent.
MdnsQueries == { i \in 1..Len(host.queries) : host.queries[i].via = "mdns" }

\* Standard resolution failed in the call of host.
DnsFailed == host.fn # "none" /\ ~host.hostname.ip /\ host.dns.kind = "gaierror"

C17_UsedMdnsIffMulticast ==
    host.fn = "resolve_hostname"
        => /\ host.result.kind = "returned"
                => (host.result.used_mdns
                      <=> /\ MdnsQueries # {}
                          /\ host.result.ip_addr = host.mdns.addrs[1])
           /\ host.dns.kind = "answer"
                => /\ host.result = Returned(host.dns.addrs[1], FALSE)
                   /\ MdnsQueries = {}
           /\ (/\ DnsFailed
               /\ EndsWithLocal(host.hostname) \/ ~HasDot(host.hostname))
                => /\ host.queries
                        = <<Query("dns", host.hostname, "None"),
                            Query("mdns",
                                  IF EndsWithLocal(host.hostname)
                                  THEN host.hostname
                                  ELSE HostName(host.hostname.labels
                                                  \o <<"local">>),
                                  host.mdns_source)>>
                   /\ (host.mdns.kind = "answer" /\ host.mdns.addrs # <<>>)
                        => host.result = Returned(host.mdns.addrs[1], TRUE)

\* C17 happens: a .local name is answered over multicast DNS, not the first
\* address of standard resolution.
C17_Witness ==
    /\ host.fn = "resolve_hostname"
    /\ host.hostname = HostName(<<"a", "b", "local">>)
    /\ host.result.kind = "returned"
    /\ host.result.used_mdns
    /\ Len(host.mdns.addrs) = 2
    /\ host.queries[2].name = host.hostname

\* C18: when the multicast-DNS query gets an answer without addresses or
\* times out, resolve_hostname raises the tool's error, whose message names
\* the multicast name queried, and it sent that one query only.
C18_MdnsFailureNamesHost ==
    (/\ host.fn = "resolve_hostname"
     /\ MdnsQueries # {}
     /\ host.mdns = Answer(<<>>) \/ host.mdns.kind = "Timeout")
        => /\ host.result.kind = "raised"
           /\ host.result.exc = "TorizonCoreBuilderError"
           /\ host.result.named = host.queries[2].name
           /\ Cardinality(MdnsQueries) = 1

\* C19: when neither standard resolution nor multicast DNS resolves the name,
\* resolve_hostname returns the name it was given.
C19_UnresolvedReturnsOriginal ==
    (/\ host.fn = "resolve_hostname"
     /\ DnsFailed
     /\ \/ MdnsQueries = {}
        \/ host.mdns.kind # "answer"
        \/ host.mdns.addrs = <<>>)
        => /\ host.result.kind = "returned"
           /\ host.result.ip_addr = host.hostname

\* C20: when base_csum is given, the dictionary get_reference_dict returns
\* maps the ref name base to base_csum, whatever refs the repository lists.
C20_BaseRefIsBaseCsum ==
    ost.refs.base_csum # NoCsum
        => /\ OSTREE_BASE_REF \in DOMAIN ost.refs.ret
           /\ ost.refs.ret[OSTREE_BASE_REF] = ost.refs.base_csum

\* The name of a ref that OSTree generates for a deployment:
\* ostree/<n>/<n>/<n>.
NamesGeneratedRef(path) ==
    /\ Len(path) = 4
    /\ path[1] = "ostree"
    /\ \A i \in 2..4 : path[i] \in Digits

\* C21: the dictionary get_reference_dict returns has no key ostree/n/n/n,
\* whether the repository lists that ref with a remote prefix or without,
\* and every other ref listed is a key of it, under its name without the
\* remote prefix, with the checksum of a listed ref of that name.
C21_GeneratedRefsFiltered ==
    /\ \A k \in DOMAIN ost.refs.ret : ~NamesGeneratedRef(k)
    /\ \A r \in DOMAIN ost.refs.out_all_refs :
         ~NamesGeneratedRef(r.path)
            => /\ r.path \in DOMAIN ost.refs.ret
               /\ \/ ost.refs.ret[r.path] = ost.refs.base_csum
                  \/ \E q \in DOMAIN ost.refs.out_all_refs :
                       q.path = r.path /\ ost.refs.ret[r.path] = ost.refs.out_all_refs[q]

\* The changes directory dir says something about the path n: it holds n, the
\* whiteout of n or the opaque whiteout.
Mentions(dir, n) ==
    \/ DirEntry(FALSE, n) \in DOMAIN dir
    \/ DirEntry(TRUE, n) \in DOMAIN dir
    \/ OSTREE_OPAQUE_WHITEOUT_NAME \in DOMAIN dir

PathNames == {"a.txt", "b.txt"}

\* The example of the spec: base {a.txt: 1}, dir1 {a.txt: 2}, dir2 the
\* whiteout of a.txt.
ExampleBase == With(EmptyDir, "a.txt", "1")

ExampleDir1 == With(EmptyDir, DirEntry(FALSE, "a.txt"), "2")

ExampleDir2 == With(EmptyDir, DirEntry(TRUE, "a.txt"), "")

\* C22: in the tree union writes, each path is as the last changes directory
\* that mentions it leaves it (its regular file if it holds one, else
\* deleted), and as in the base tree if none mentions it; on the example of
\* the spec, [dir1, dir2] gives no a.txt and [dir2, dir1] gives a.txt
\* holding 2.
C22_LaterChangesWin ==
    LET u == ost.union
        Last(n) == { i \in 1..Len(u.changes_dirs) :
                       /\ Mentions(u.changes_dirs[i], n)
                       /\ \A j \in (i + 1)..Len(u.changes_dirs) :
                            ~Mentions(u.changes_dirs[j], n) }
    IN  /\ \A n \in PathNames :
             IF Last(n) = {}
             THEN /\ n \in DOMAIN u.tree <=> n \in DOMAIN u.base
                  /\ n \in DOMAIN u.base => u.tree[n] = u.base[n]
             ELSE \A i \in Last(n) :
                    IF DirEntry(FALSE, n) \in DOMAIN u.changes_dirs[i]
                    THEN /\ n \in DOMAIN u.tree
                         /\ u.tree[n] = u.changes_dirs[i][DirEntry(FALSE, n)]
                    ELSE n \notin DOMAIN u.tree
        /\ (u.base = ExampleBase /\ u.changes_dirs = <<ExampleDir1, ExampleDir2>>)
             => u.tree = EmptyDir
        /\ (u.base = ExampleBase /\ u.changes_dirs = <<ExampleDir2, ExampleDir1>>)
             => u.tree = With(EmptyDir, "a.txt", "2")

\* C22 happens: the example of the spec, in the order [dir2, dir1].
C22_Witness ==
    /\ ost.union.base = ExampleBase
    /\ ost.union.changes_dirs = <<ExampleDir2, ExampleDir1>>
    /\ "a.txt" \in DOMAIN ost.union.tree

\* The text of overlays.txt holds the words of the basename n.
Listed(f, n) ==
    /\ f.manifest.exists
    /\ Range(WordsOf(n)) \subseteq Range(f.manifest.words)

\* Both processes reported success for different overlays, both blobs are
\* staged, and overlays.txt does not hold one of the two basenames.
LostUpdate ==
    /\ \A p \in Procs : run[p].pc = "done" /\ run[p].outcome = "Applied"
    /\ run["p1"].target # run["p2"].target
    /\ \A p \in Procs : run[p].target \in Staged(fs)
    /\ \E p \in Procs : ~Listed(fs, run[p].target)

\* C23: nothing keeps two dto_apply calls on one storage directory apart, and
\* a lost update (both succeed, both blobs staged, one basename missing from
\* overlays.txt) happens only to calls that overlapped: of two calls made one
\* after the other both basenames are in overlays.txt.
C23_LostUpdateOnlyWhenInterleaved ==
    LostUpdate => \A p \in Procs : run[p].overlap

\* C23 happens: two overlapping calls, both tested against the device tree,
\* and the basename of one is lost.
C23_Witness ==
    /\ LostUpdate
    /\ \A p \in Procs : /\ run[p].overlap
                        /\ run[p].args.test_apply
                        /\ Len(run[p].target.stem) = 1
    /\ Cardinality(Range(Applied(fs))) = 1

\* The names of the directories of the commit's /usr/lib/modules whose
\* listing has an entry named vmlinuz.
KernelDirs(commit) ==
    { commit.modules[i].name :
        i \in { j \in 1..Len(commit.modules) :
                  /\ commit.modules[j].type = "directory"
                  /\ "vmlinuz" \in commit.modules[j].files } }

ListedBlobsPresent(f) ==
    \A n \in Range(Applied(f)) : FindPathToOverlay(f, n) # NoPath

\* C25: between any two file operations of apply, remove-one and remove-all,
\* and when they end or are interrupted, every basename the manifest lists
\* has its blob in the staged or in the base-image overlays directory.
C25_ListedBlobsAlwaysPresent == ListedBlobsPresent(fs)

\* The names of the first k items of the dict refs.
FirstNames(refs, k) == { refs[i].ref_name : i \in 1..k }

\* The items of the call the loop has gone past.
Processed(p) == Len(p.refs) - Len(p.items)

\* C26: at every step of pull_local_refs each ref set in the repository is
\* set to the checksum its item gives and that commit has been pulled; when
\* the call has raised, the pull of the item the loop stands at had failed,
\* the refs of the items before it are set, and neither its ref nor the ref
\* of any item after it is.
C26_RefSetOnlyAfterPull ==
    LET p == ost.pull
    IN  /\ \A n \in DOMAIN p.set : p.set[n] \in p.commits
        /\ \A i \in 1..Len(p.refs) :
             p.refs[i].ref_name \in DOMAIN p.set =>
                /\ p.set[p.refs[i].ref_name] = p.refs[i].ref_csum
                /\ p.refs[i].ok
        /\ p.status = "TorizonCoreBuilderError" =>
             /\ p.items # <<>>
             /\ ~Head(p.items).ok
             /\ DOMAIN p.set = FirstNames(p.refs, Processed(p))
        /\ p.status = "returned" =>
             DOMAIN p.set = FirstNames(p.refs, Len(p.refs))

\* C26 happens: the pull of the second of three refs fails, after the first
\* was pulled and set.
C26_Witness ==
    /\ ost.pull.status = "TorizonCoreBuilderError"
    /\ Len(ost.pull.refs) = 3
    /\ Processed(ost.pull) = 1
    /\ ost.pull.refs[3].ok
    /\ DOMAIN ost.pull.set = {ost.pull.refs[1].ref_name}

====
